---- MODULE Spec2Model ----
(***************************************************************************)
(* A model of resistor-calc: the constraint builder (src/src/expr_builder.rs) *)
(* and the combination search (src/src/lib.rs).                             *)
(*                                                                         *)
(* Texts are sequences of one-character strings.  Resistances, targets and *)
(* expression values are counted in tenths of an ohm (1.0 -> 10, 2.2 -> 22).*)
(***************************************************************************)
EXTENDS Integers, Sequences, FiniteSets, TLC

(***************************************************************************)
(* Bounds of the model.                                                    *)
(***************************************************************************)
\* Longest text drawn for the parser specification.
MaxTextLen == 5
\* Largest number of slots of an RCalc.
MaxSlots == 2
\* Number of entries of POWERS used to build a series (the code has 7).
NumDecades == 1
\* Largest number of bounds added to one ROpBuilder.
MaxOps == 2

(***************************************************************************)
(* Text helpers: str::contains, str::split, str::trim.                     *)
(***************************************************************************)
\* the characters of the texts drawn for the parser specification
Alphabet == {"1", "<", "=", ">", "!", "~", " "}

Digits == {"0", "1", "2", "3", "4", "5", "6", "7", "8", "9"}

DigitVal(c) ==
  CASE c = "0" -> 0 [] c = "1" -> 1 [] c = "2" -> 2 [] c = "3" -> 3
    [] c = "4" -> 4 [] c = "5" -> 5 [] c = "6" -> 6 [] c = "7" -> 7
    [] c = "8" -> 8 [] c = "9" -> 9

\* pat occurs in s starting at position i
MatchAt(s, pat, i) ==
  /\ i >= 1
  /\ i + Len(pat) - 1 <= Len(s)
  /\ \A k \in 1..Len(pat) : s[i + k - 1] = pat[k]

\* position of the first occurrence of pat in s at or after from, 0 if none
FindFrom(s, pat, from) ==
  LET hits == {i \in from..Len(s) : MatchAt(s, pat, i)}
  IN IF hits = {} THEN 0 ELSE CHOOSE i \in hits : \A j \in hits : i <= j

Contains(s, pat) == FindFrom(s, pat, 1) # 0

\* the pieces str::split(pat) yields, in order (pat is never empty here)
RECURSIVE SplitFrom(_, _, _)
SplitFrom(s, pat, from) ==
  LET i == FindFrom(s, pat, from)
  IN IF i = 0
     THEN << SubSeq(s, from, Len(s)) >>
     ELSE << SubSeq(s, from, i - 1) >> \o SplitFrom(s, pat, i + Len(pat))

Split(s, pat) == SplitFrom(s, pat, 1)

RECURSIVE TrimStart(_)
TrimStart(s) ==
  IF s # << >> /\ Head(s) = " " THEN TrimStart(Tail(s)) ELSE s

RECURSIVE TrimEnd(_)
TrimEnd(s) ==
  IF s # << >> /\ s[Len(s)] = " " THEN TrimEnd(SubSeq(s, 1, Len(s) - 1)) ELSE s

Trim(s) == TrimEnd(TrimStart(s))

RECURSIVE DecimalValue(_)
DecimalValue(s) ==
  IF s = << >> THEN 0
  ELSE 10 * DecimalValue(SubSeq(s, 1, Len(s) - 1)) + DigitVal(s[Len(s)])

AllDigits(s) == s # << >> /\ \A i \in 1..Len(s) : s[i] \in Digits

(***************************************************************************)
(* The two collaborators of split_expr: str::parse::<f64> and              *)
(* str::parse::<meval::Expr>.  The texts drawn here hold digits, the       *)
(* letter R, blanks and the characters < > = ~ and !=, so a number is a    *)
(* digit string and an expression is one number or one identifier; no      *)
(* other character they hold is a token of either grammar.                 *)
(***************************************************************************)
Letters == {"R"}

ParseF64(s) ==
  IF AllDigits(s)
  THEN [ok |-> TRUE, val |-> 10 * DecimalValue(s)]
  ELSE [ok |-> FALSE, val |-> 0]

IsIdent(s) ==
  /\ s # << >>
  /\ s[1] \in Letters
  /\ \A i \in 2..Len(s) : s[i] \in Letters \cup Digits

ParseExpr(s) ==
  LET t == Trim(s)
  IN IF AllDigits(t)
     THEN [ok |-> TRUE, kind |-> "num", val |-> 10 * DecimalValue(t), name |-> << >>]
     ELSE IF IsIdent(t)
     THEN [ok |-> TRUE, kind |-> "var", val |-> 0, name |-> t]
     ELSE [ok |-> FALSE, kind |-> "none", val |-> 0, name |-> << >>]

(***************************************************************************)
(* split_expr (expr_builder.rs:16-22): the first two pieces of             *)
(* expr.split(pat), trimmed and parsed; every unwrap that fails panics.    *)
(***************************************************************************)
SplitExpr(expr, pat) ==
  LET pieces == Split(expr, pat)
      ex     == ParseExpr(Trim(pieces[1]))
      trg    == IF Len(pieces) >= 2 THEN ParseF64(Trim(pieces[2]))
                ELSE [ok |-> FALSE, val |-> 0]
  IN [ok  |-> ex.ok /\ Len(pieces) >= 2 /\ trg.ok,
      ex  |-> ex,
      trg |-> trg.val,
      left  |-> Trim(pieces[1]),
      right |-> IF Len(pieces) >= 2 THEN Trim(pieces[2]) ELSE << >>]

(***************************************************************************)
(* Bounds::from_str (expr_builder.rs:27-60).                               *)
(***************************************************************************)
Pat(op) ==
  CASE op = "<=" -> << "<", "=" >>
    [] op = "<"  -> << "<" >>
    [] op = ">=" -> << ">", "=" >>
    [] op = ">"  -> << ">" >>
    [] op = "==" -> << "=", "=" >>
    [] op = "!=" -> << "!", "=" >>
    [] op = "~"  -> << "~" >>

AllOps == {"<=", "<", ">=", ">", "==", "!=", "~"}

\* A plausible slip: every two-character operator is tried before < and >.
SelectOpTwoCharFirst(s) ==
  IF Contains(s, Pat("<=")) THEN "<="
  ELSE IF Contains(s, Pat(">=")) THEN ">="
  ELSE IF Contains(s, Pat("==")) THEN "=="
  ELSE IF Contains(s, Pat("!=")) THEN "!="
  ELSE IF Contains(s, Pat("<")) THEN "<"
  ELSE IF Contains(s, Pat(">")) THEN ">"
  ELSE IF Contains(s, Pat("~")) THEN "~"
  ELSE "none"

\* the branch of the if-chain that is taken
SelectOp(s) ==
  IF Contains(s, Pat("<=")) THEN "<="
  ELSE IF Contains(s, Pat("<")) THEN "<"
  ELSE IF Contains(s, Pat(">=")) THEN ">="
  ELSE IF Contains(s, Pat(">")) THEN ">"
  ELSE IF Contains(s, Pat("==")) THEN "=="
  ELSE IF Contains(s, Pat("!=")) THEN "!="
  ELSE IF Contains(s, Pat("~")) THEN "~"
  ELSE "none"

\* res: "Ok" (a Bounds value), "Err" (the &'static str), "panic" (an unwrap
\* inside split_expr failed).  variant "Cmp" is Bounds::Cmp, "Tol" is
\* Bounds::Err (the tolerance bound).
NoBound == [variant |-> "none", op |-> "none",
            ex |-> [ok |-> FALSE, kind |-> "none", val |-> 0, name |-> << >>],
            trg |-> 0]

FromStr(s) ==
  LET op == SelectOp(s)
  IN IF op = "none" THEN [res |-> "Err", b |-> NoBound]
     ELSE LET sp == SplitExpr(s, Pat(op))
          IN IF ~sp.ok THEN [res |-> "panic", b |-> NoBound]
             ELSE [res |-> "Ok",
                   b |-> [variant |-> IF op = "~" THEN "Tol" ELSE "Cmp",
                          op |-> op, ex |-> sp.ex, trg |-> sp.trg]]

(***************************************************************************)
(* Series (lib.rs:66-129).  POWERS is cut to its first NumDecades entries. *)
(***************************************************************************)
RECURSIVE Pow10(_)
Pow10(n) == IF n = 0 THEN 1 ELSE 10 * Pow10(n - 1)

POWERS == [i \in 1..NumDecades |-> Pow10(i - 1)]

\* series.iter().cartesian_product(POWERS.iter()).map(|(val, pow)| val * pow):
\* multiplier-major, decade-minor
Expand(mults) ==
  [k \in 1..(Len(mults) * NumDecades) |->
     mults[((k - 1) \div NumDecades) + 1] * POWERS[((k - 1) % NumDecades) + 1]]

RSeriesNew(series) == Expand(series)

RSeriesExtend(base, add) == base \o Expand(add)

E3 == RSeriesNew(<< 10, 22, 47 >>)

E6 == RSeriesExtend(E3, << 15, 33, 68 >>)

SeriesNames == {"E3", "E6"}

Values(name) == IF name = "E3" THEN E3 ELSE E6

(***************************************************************************)
(* Error values.  An f64 error e >= 0 is the record                        *)
(*   [big, tenths, qppb]  =  big * 1e7 + tenths / 10 + qppb * 0.25e-9      *)
(* and a count of parts per billion is written in base 1e8 as              *)
(*   [hi, mid, lo, q]     =  hi * 1e16 + mid * 1e8 + lo + q / 4            *)
(* so that u64::MAX = 18446744073709551615 has three digits.               *)
(***************************************************************************)
Base == Pow10(8)

U64_MAX == [hi |-> 1844, mid |-> 67440737, lo |-> 9551615]

Zero == [big |-> 0, tenths |-> 0, qppb |-> 0]

Tenths(k) == [big |-> k \div Base, tenths |-> k % Base, qppb |-> 0]

\* v + d for a deviation d counted in tenths
AddTenths(v, d) ==
  LET t == v.tenths + d
  IN [big |-> v.big + (t \div Base), tenths |-> t % Base, qppb |-> v.qppb]

\* err * 1e9
MulE9(e) == [hi |-> e.big, mid |-> e.tenths, lo |-> e.qppb \div 4, q |-> e.qppb % 4]

Normal(hi, mid, lo) ==
  LET m == mid + (lo \div Base)
  IN [hi |-> hi + (m \div Base), mid |-> m % Base, lo |-> lo % Base]

\* f64::round: to the nearest integer, halves away from zero
Round(x) == Normal(x.hi, x.mid, IF x.q >= 2 THEN x.lo + 1 ELSE x.lo)

PpbLess(a, b) ==
  \/ a.hi < b.hi
  \/ a.hi = b.hi /\ a.mid < b.mid
  \/ a.hi = b.hi /\ a.mid = b.mid /\ a.lo < b.lo

PpbZero == [hi |-> 0, mid |-> 0, lo |-> 0]

\* `as u64` of a non-negative integral f64.  A value above u64::MAX saturates
\* since Rust 1.45 and was undefined before: `over` is what the build yields.
OutOfRangeCasts == {U64_MAX, PpbZero}

AsU64(n, over) == IF PpbLess(U64_MAX, n) THEN over ELSE n

\* (err * 1e9).round() as u64
Quantize(e, over) == AsU64(Round(MulE9(e)), over)

(***************************************************************************)
(* Evaluation of a bound on a candidate (expr_builder.rs:86-121).          *)
(***************************************************************************)
RECURSIVE Decimal(_)
Decimal(n) ==
  LET d == CHOOSE c \in Digits : DigitVal(c) = n % 10
  IN IF n < 10 THEN << d >> ELSE Decimal(n \div 10) \o << d >>

\* RNAMES[i - 1]: format!("R{}", i)
RNAMES(i) == << "R" >> \o Decimal(i)

\* expr.eval_with_context(ctx), ctx binding RNAMES[i] to rs.0[i] for every
\* value of the candidate; a name the context does not hold is an error
Eval(ex, cand) ==
  IF ex.kind = "num" THEN [ok |-> TRUE, val |-> ex.val]
  ELSE LET hit == {i \in 1..Len(cand) : RNAMES(i) = ex.name}
       IN IF hit = {} THEN [ok |-> FALSE, val |-> 0]
          ELSE [ok |-> TRUE, val |-> cand[CHOOSE i \in hit : TRUE]]

Abs(x) == IF x < 0 THEN -x ELSE x

\* the closures of Bounds::from_str; a distance below f64 EPSILON is a
\* distance of zero on the grid of tenths
CmpOp(op, a, b) ==
  CASE op = "<=" -> a <= b
    [] op = "<"  -> a < b
    [] op = ">=" -> a >= b
    [] op = ">"  -> a > b
    [] op = "==" -> Abs(a - b) = 0
    [] op = "!=" -> Abs(a - b) > 0

None == [k |-> "None", e |-> Zero]

Some(e) == [k |-> "Some", e |-> e]

Panic == [k |-> "panic", e |-> Zero]

\* The closure cmp_bound_fn builds from ops: the last bound is popped first and
\* wraps the closure of the bounds before it.
RECURSIVE RunBound(_, _)
RunBound(bs, cand) ==
  IF bs = << >> THEN Some(Zero)
  ELSE LET b     == bs[Len(bs)]
           inner == SubSeq(bs, 1, Len(bs) - 1)
           v     == Eval(b.ex, cand)
       IN IF ~v.ok THEN Panic
          ELSE IF b.variant = "Cmp"
          THEN IF CmpOp(b.op, v.val, b.trg) THEN RunBound(inner, cand) ELSE None
          ELSE LET r == RunBound(inner, cand)
               IN IF r.k = "Some" THEN Some(AddTenths(r.e, Abs(b.trg - v.val)))
                  ELSE r

CmpBoundFn(bs) == [kind |-> "built", bs |-> bs, table |-> << >>]

(***************************************************************************)
(* Scoring functions written by hand: the outcome is looked up by the      *)
(* candidate's sum (RSet::sum) modulo the size of a table.                 *)
(***************************************************************************)
RECURSIVE Sum(_)
Sum(cand) == IF cand = << >> THEN 0 ELSE Head(cand) + Sum(Tail(cand))

Direct(table) == [kind |-> "direct", bs |-> << >>, table |-> table]

NoScorer == [kind |-> "none", bs |-> << >>, table |-> << >>]

\* f(&rs)
Apply(f, cand) ==
  IF f.kind = "built" THEN RunBound(f.bs, cand)
  ELSE f.table[(Sum(cand) % Len(f.table)) + 1]

(***************************************************************************)
(* RCalc (lib.rs:232-301).                                                 *)
(***************************************************************************)
RECURSIVE Flatten(_)
Flatten(ss) == IF ss = << >> THEN << >> ELSE Head(ss) \o Flatten(Tail(ss))

\* A plausible slip: the first series varies fastest instead of the last.
RECURSIVE ProductFirstFastest(_)
ProductFirstFastest(iters) ==
  IF iters = << >> THEN << << >> >>
  ELSE LET rest == ProductFirstFastest(Tail(iters))
           first == Head(iters)
       IN Flatten([j \in 1..Len(rest) |->
                     [i \in 1..Len(first) |-> << first[i] >> \o rest[j]]])

\* the tuples of the series in iters, the last one varying fastest
RECURSIVE Product(_)
Product(iters) ==
  IF iters = << >> THEN << << >> >>
  ELSE LET rest == Product(Tail(iters))
           first == Head(iters)
       IN Flatten([i \in 1..Len(first) |->
                     [j \in 1..Len(rest) |-> << first[i] >> \o rest[j]]])

\* itertools' multi_cartesian_product.  Over no iterators at all it yields
\* one empty tuple from itertools 0.13 on and nothing before that; which one
\* the build links is not fixed by the sources (yieldsOne).
MultiCartesianProduct(iters, yieldsOne) ==
  IF iters = << >> THEN (IF yieldsOne THEN << << >> >> ELSE << >>)
  ELSE Product(iters)

\* self.rs.iter().map(|r| r.iter().cloned())
Iters(slots) == [i \in 1..Len(slots) |-> Values(slots[i])]

\* self.rs.iter().map(|r| r.len() as u128).product()
RECURSIVE ProductOfLens(_)
ProductOfLens(slots) ==
  IF slots = << >> THEN 1 ELSE Len(Values(Head(slots))) * ProductOfLens(Tail(slots))

\* A plausible slip: a rejected candidate is kept, with error 0.
FilterMapKeepsRejected(cands, f, over) ==
  [i \in 1..Len(cands) |->
     [err |-> Quantize(Apply(f, cands[i]).e, over), rs |-> cands[i]]]

\* .filter_map(|v| f(&rs).map(|err| ((err * 1e9).round() as u64, rs)))
FilterMap(cands, f, over) ==
  LET kept == SelectSeq(cands, LAMBDA c : Apply(f, c).k = "Some")
  IN [i \in 1..Len(kept) |->
        [err |-> Quantize(Apply(f, kept[i]).e, over), rs |-> kept[i]]]

Keys(v) == {v[i].err : i \in 1..Len(v)}

MinKey(K) == CHOOSE k \in K : \A j \in K : ~PpbLess(j, k)

Reverse(v) == [i \in 1..Len(v) |-> v[Len(v) + 1 - i]]

\* A plausible slip: a sort that is not stable (entries of one key come out
\* in reverse).
RECURSIVE SortUnstableFrom(_, _)
SortUnstableFrom(v, K) ==
  IF K = {} THEN << >>
  ELSE LET k == MinKey(K)
       IN Reverse(SelectSeq(v, LAMBDA x : x.err = k)) \o SortUnstableFrom(v, K \ {k})

SortUnstable(v) == SortUnstableFrom(v, Keys(v))

\* res.sort_by_key(|(err, _rs)| *err): a stable sort, ascending.  Key by key
\* from the least, the entries of that key in the order they have in v.
RECURSIVE SortFrom(_, _)
SortFrom(v, K) ==
  IF K = {} THEN << >>
  ELSE LET k == MinKey(K)
       IN SelectSeq(v, LAMBDA x : x.err = k) \o SortFrom(v, K \ {k})

SortByKey(v) == SortFrom(v, Keys(v))

\* index of the first candidate on which f panics, 0 if there is none
FirstPanic(cands, f) ==
  LET bad == {i \in 1..Len(cands) : Apply(f, cands[i]).k = "panic"}
  IN IF bad = {} THEN 0 ELSE CHOOSE i \in bad : \A j \in bad : i <= j

(***************************************************************************)
(* The state.                                                              *)
(***************************************************************************)
VARIABLES
  rs,          \* RCalc.rs: the series of the slots, by name
  builder,     \* "building", "finished" (finish was called), "panicked"
  ops,         \* ROpBuilder.ops
  last,        \* the last call of bound: its text and the ops before it
  f,           \* the scoring function handed to calc
  outcome,     \* of calc: "idle", "Some", "None", "panic"
  res,         \* RRes.res of the returned result
  calls,       \* the candidates calc passed to f, in order
  ncomb,       \* what combinations() returned, -1 before it is called
  text,        \* the text handed to Bounds::from_str
  parsed       \* what from_str did with it

vars == << rs, builder, ops, last, f, outcome, res, calls, ncomb,
           text, parsed >>

RECURSIVE SeqsUpTo(_, _)
SeqsUpTo(S, n) ==
  IF n = 0 THEN {<< >>}
  ELSE LET shorter == SeqsUpTo(S, n - 1)
       IN shorter \cup {Append(t, c) : t \in {u \in shorter : Len(u) = n - 1}, c \in S}

\* the texts handed to ROpBuilder::bound
BoundTexts ==
  { << "R", "1", "<", "3" >>,
    << "R", "1", "~", "2" >>,
    << "R", "2", "~", "1" >>,
    << "R", "3", ">", "1" >>,
    << "R", "1", "!", "=", "1" >>,
    << "R", "1", "=", "=", "1" >>,
    << "R", "2", ">", "=", "3" >>,
    << " ", "R", "1", " ", "<", "=", " ", "2", " " >>,
    << "R", "1", " ", "1" >>,
    << "R", "1", "<", "R" >>,
    << "=", "<", "1" >>,
    << "R", "1", "~", "1", "~", "2" >> }

\* the errors a hand-written scoring function returns: 0, 0.25e-9, 0.5e-9,
\* 1.5e-9 and 1e11
ErrSamples ==
  { Zero,
    [big |-> 0, tenths |-> 0, qppb |-> 1],
    [big |-> 0, tenths |-> 0, qppb |-> 2],
    [big |-> 0, tenths |-> 0, qppb |-> 6],
    [big |-> 10000, tenths |-> 0, qppb |-> 0] }

DirectOutcomes == {None} \cup {Some(e) : e \in ErrSamples}

DirectTables == [1..2 -> DirectOutcomes]

NotParsed == [op |-> "unparsed", res |-> "none", left |-> << >>, right |-> << >>,
              b |-> NoBound]

NoCall == [text |-> << >>, before |-> << >>, res |-> "none"]

Start(names) ==
  /\ rs \in SeqsUpTo(names, MaxSlots)
  /\ builder = "building"
  /\ ops = << >>
  /\ last = NoCall
  /\ f = NoScorer
  /\ outcome = "idle"
  /\ res = << >>
  /\ calls = << >>
  /\ ncomb = -1
  /\ text = << >>
  /\ parsed = NotParsed

\* a search with a hand-written scoring function
Init == Start(SeriesNames)

\* a search with a scoring function built by ROpBuilder, over one slot or more
InitBuild == Start({"E3"}) /\ rs # << >>

\* ROpBuilder::bound (expr_builder.rs:81-84): expr.parse().unwrap() panics on
\* the Err of from_str and on a panic inside it; the builder, taken by value,
\* is dropped by the unwinding.
Bound(t) ==
  /\ builder = "building"
  /\ outcome = "idle"
  /\ f = NoScorer
  /\ Len(ops) < MaxOps
  /\ LET p == FromStr(t)
     IN /\ last' = [text |-> t, before |-> ops, res |-> p.res]
        /\ IF p.res = "Ok"
           THEN /\ ops' = Append(ops, p.b)
                /\ UNCHANGED builder
           ELSE /\ ops' = << >>
                /\ builder' = "panicked"
  /\ UNCHANGED << rs, f, outcome, res, calls, ncomb, text, parsed >>

\* ROpBuilder::finish (expr_builder.rs:112-121): cmp_bound_fn pops every bound
\* into the closure.
Finish ==
  /\ builder = "building"
  /\ f = NoScorer
  /\ f' = CmpBoundFn(ops)
  /\ ops' = << >>
  /\ builder' = "finished"
  /\ UNCHANGED << rs, last, outcome, res, calls, ncomb, text, parsed >>

\* a scoring function written by hand instead of built
HandWritten(table) ==
  /\ builder = "building"
  /\ ops = << >>
  /\ f = NoScorer
  /\ f' = Direct(table)
  /\ UNCHANGED << rs, builder, ops, last, outcome, res, calls, ncomb,
                  text, parsed >>

\* RCalc::combinations (lib.rs:275-277); it reads rs only, and is called
\* here once the search is over
Combinations ==
  /\ outcome # "idle"
  /\ ncomb = -1
  /\ ncomb' = ProductOfLens(rs)
  /\ UNCHANGED << rs, builder, ops, last, f, outcome, res, calls,
                  text, parsed >>

\* RCalc::calc (lib.rs:284-300).  A panic of f ends the search at that
\* candidate.  over and yieldsOne are the two things the build decides: the
\* cast of an out-of-range error and the product of no iterators.
Calc(over, yieldsOne) ==
  /\ f # NoScorer
  /\ outcome = "idle"
  /\ LET cands == MultiCartesianProduct(Iters(rs), yieldsOne)
         stop  == FirstPanic(cands, f)
         found == SortByKey(FilterMap(cands, f, over))
     IN IF stop # 0
        THEN /\ outcome' = "panic"
             /\ calls' = SubSeq(cands, 1, stop)
             /\ res' = << >>
        ELSE /\ calls' = cands
             /\ outcome' = IF found # << >> THEN "Some" ELSE "None"
             /\ res' = found
  /\ UNCHANGED << rs, builder, ops, last, f, ncomb, text, parsed >>

Next ==
  \/ \E table \in DirectTables : HandWritten(table)
  \/ \E over \in OutOfRangeCasts, yieldsOne \in BOOLEAN : Calc(over, yieldsOne)
  \/ Combinations

Spec == Init /\ [][Next]_vars

NextBuild ==
  \/ \E t \in BoundTexts : Bound(t)
  \/ Finish
  \/ \E over \in OutOfRangeCasts, yieldsOne \in BOOLEAN : Calc(over, yieldsOne)

SpecBuild == InitBuild /\ [][NextBuild]_vars

(***************************************************************************)
(* The parser alone: Bounds::from_str on every short text.                 *)
(***************************************************************************)
\* every ! of the text is the first character of a !=
BangOnlyInNe(t) ==
  \A i \in 1..Len(t) : t[i] = "!" => (i < Len(t) /\ t[i + 1] = "=")

Texts == {t \in SeqsUpTo(Alphabet, MaxTextLen) : BangOnlyInNe(t)}

InitParse ==
  /\ text \in Texts
  /\ parsed = NotParsed
  /\ rs = << >>
  /\ builder = "building"
  /\ ops = << >>
  /\ last = NoCall
  /\ f = NoScorer
  /\ outcome = "idle"
  /\ res = << >>
  /\ calls = << >>
  /\ ncomb = -1

\* s.parse::<Bounds>(): the operator selected, the two sides split_expr cut
\* out, and the result
Parse ==
  /\ parsed = NotParsed
  /\ LET op == SelectOp(text)
         p  == FromStr(text)
         sp == SplitExpr(text, Pat(op))
     IN parsed' = [op    |-> op,
                   res   |-> p.res,
                   left  |-> IF op = "none" THEN << >> ELSE sp.left,
                   right |-> IF op = "none" THEN << >> ELSE sp.right,
                   b     |-> p.b]
  /\ UNCHANGED << rs, builder, ops, last, f, outcome, res, calls,
                  ncomb, text >>

NextParse == Parse

SpecParse == InitParse /\ [][NextParse]_vars

(***************************************************************************)
(* Properties of the search, stated for Spec.                              *)
(***************************************************************************)
Range(v) == {v[i] : i \in 1..Len(v)}

Returned == outcome \in {"Some", "None"}

\* the enumerated candidates f accepted, in the order of the enumeration
Accepted == SelectSeq(calls, LAMBDA c : Apply(f, c).k = "Some")

\* the place of a candidate in the enumeration
Pos(c) == CHOOSE k \in 1..Len(calls) : calls[k] = c

\* the candidates of the result set, in iteration order
ResultCandidates == [j \in 1..Len(res) |-> res[j].rs]

\* C1: calc returns None exactly when f accepted no enumerated candidate;
\* otherwise the result set holds exactly one entry per accepted candidate
\* (none missing, no rejected candidate, no duplicate) and is not empty.
C1_ResultHoldsExactlyTheAccepted ==
  Returned =>
    /\ (outcome = "None") <=> (Accepted = << >>)
    /\ outcome = "None" => res = << >>
    /\ outcome = "Some" =>
         /\ res # << >>
         /\ Len(res) = Len(Accepted)
         /\ Range(ResultCandidates) = Range(Accepted)
         /\ Cardinality(Range(ResultCandidates)) = Len(res)

\* C1 witness: a returned result set from which some candidates were rejected.
C1_Witness ==
  /\ outcome = "Some"
  /\ Len(res) >= 2
  /\ Len(res) < Len(calls)

\* the candidates the result set holds under key k
WithKey(k) == {res[j].rs : j \in {i \in 1..Len(res) : res[i].err = k}}

\* C2: the quantized errors of the returned result set are non-decreasing in
\* iteration order, and the entries of one quantized error come in the order
\* in which the enumeration produced them.
C2_SortedAndStable ==
  outcome = "Some" =>
    /\ \A i \in 1..(Len(res) - 1) : ~PpbLess(res[i + 1].err, res[i].err)
    /\ \A k \in Keys(res) :
         LET same == WithKey(k)
         IN SelectSeq(ResultCandidates, LAMBDA c : c \in same)
              = SelectSeq(calls, LAMBDA c : c \in same)

\* C2 witness: a result set with a tie and with two entries the sort moved
\* out of their enumeration order.
C2_Witness ==
  /\ outcome = "Some"
  /\ \E i, j \in 1..Len(res) : i < j /\ res[i].err = res[j].err
  /\ \E i, j \in 1..Len(res) : i < j /\ Pos(res[i].rs) > Pos(res[j].rs)

\* C5: with zero slots calc enumerates exactly one candidate, the empty
\* tuple, and a scoring function that accepts everything gives a result set
\* of one entry whose candidate is empty.
C5_ZeroSlotsOneCandidate ==
  (rs = << >> /\ outcome # "idle") =>
    /\ calls = << << >> >>
    /\ (\A i \in 1..Len(f.table) : f.table[i].k = "Some") =>
         (outcome = "Some" /\ Len(res) = 1 /\ res[1].rs = << >>)

\* C6: combinations() is the product of the slots' series lengths and equals
\* the number of candidates calc passed to the scoring function.
C6_CombinationsCountsTheEnumeration ==
  (ncomb # -1 /\ Returned) =>
    /\ ncomb = Cardinality(Range(Product(Iters(rs))))
    /\ ncomb = Len(calls)

\* C10: the quantized error stored for a candidate accepted with error e is
\* round(e * 1e9), and quantizing the stored value again leaves it unchanged.
C10_StoredIsRoundOfError ==
  outcome = "Some" =>
    \A j \in 1..Len(res) :
      LET e == Apply(f, res[j].rs).e
          q == res[j].err
      IN /\ q = Round(MulE9(e))
         /\ AsU64(Round([hi |-> q.hi, mid |-> q.mid, lo |-> q.lo, q |-> 0]), U64_MAX) = q

\* the number of candidates that share one value of slot i and of every slot
\* before it: the product of the lengths of the series of the slots after i
RECURSIVE Stride(_)
Stride(i) == IF i >= Len(rs) THEN 1 ELSE Len(Values(rs[i + 1])) * Stride(i + 1)

\* the index into slot i's series of the k-th candidate of a slot-major
\* enumeration (slot 1 slowest, the last slot fastest)
SlotMajorIndex(k, i) == (((k - 1) \div Stride(i)) % Len(Values(rs[i]))) + 1

\* C11: with one slot or more, a calc that returns has passed to the scoring
\* function every combination of the slots' series exactly once, in
\* slot-major order (slot 1 slowest, the last slot fastest, each slot in its
\* series order); every candidate has one value per slot and its i-th value
\* comes from slot i's series.
C11_SlotMajorCrossProduct ==
  (Returned /\ Len(rs) >= 1) =>
    /\ Len(calls) = Len(Values(rs[1])) * Stride(1)
    /\ Cardinality(Range(calls)) = Len(calls)
    /\ \A k \in 1..Len(calls) :
         /\ Len(calls[k]) = Len(rs)
         /\ \A i \in 1..Len(rs) :
              /\ calls[k][i] \in Range(Values(rs[i]))
              /\ calls[k][i] = Values(rs[i])[SlotMajorIndex(k, i)]

\* C11 witness: a returned search over two slots or more with different
\* series in the first two, where the order of the slots shows.
C11_Witness ==
  /\ Returned
  /\ Len(rs) >= 2
  /\ rs[1] # rs[2]
  /\ Len(calls) > Len(Values(rs[1]))
  /\ calls[1][1] = calls[2][1]
  /\ calls[1][2] # calls[2][2]

(***************************************************************************)
(* Properties of the constraint builder, stated for SpecBuild.             *)
(***************************************************************************)
\* every candidate of the configured slots
Candidates == Range(Product(Iters(rs)))

\* the bound's expression names a slot the search does not have
Unresolved(b) == ~Eval(b.ex, [i \in 1..Len(rs) |-> 0]).ok

\* the Comparison bound b is false on cand
CmpFalse(b, cand) ==
  /\ b.variant = "Cmp"
  /\ Eval(b.ex, cand).ok
  /\ ~CmpOp(b.op, Eval(b.ex, cand).val, b.trg)

\* the sum over the Tolerance bounds of |expression value - target|
RECURSIVE SumOfDeviations(_, _)
SumOfDeviations(bs, cand) ==
  IF bs = << >> THEN 0
  ELSE (IF Head(bs).variant = "Tol" /\ Eval(Head(bs).ex, cand).ok
        THEN Abs(Eval(Head(bs).ex, cand).val - Head(bs).trg)
        ELSE 0) + SumOfDeviations(Tail(bs), cand)

\* C3: the function finish returns yields None if and only if at least one
\* Comparison bound is false on the candidate, and otherwise Some(e) with e
\* the sum of the Tolerance deviations (0.0 when there is no Tolerance bound).
C3_NoneIffComparisonFalse ==
  builder = "finished" =>
    \A cand \in Candidates :
      LET r == Apply(f, cand)
      IN /\ r.k \in {"None", "Some"}
         /\ (r.k = "None") <=> (\E i \in 1..Len(f.bs) : CmpFalse(f.bs[i], cand))
         /\ r.k = "Some" => r.e = Tenths(SumOfDeviations(f.bs, cand))

Reorderings(bs) ==
  {[i \in 1..Len(bs) |-> bs[p[i]]] :
     p \in {q \in [1..Len(bs) -> 1..Len(bs)] : \A i, j \in 1..Len(bs) : q[i] = q[j] => i = j}}

\* C4: the order in which the bounds were declared does not change the outcome
\* of the function finish returns (rejected, accepted with the same error, or
\* aborted by an evaluation failure), whatever the candidate.
C4_OrderDoesNotMatter ==
  builder = "finished" =>
    \A other \in Reorderings(f.bs) :
      \A cand \in Candidates :
        Apply(CmpBoundFn(other), cand) = Apply(f, cand)

\* C7: a malformed text (no operator, or a side that does not parse) is
\* returned to the caller of bound as an error, without aborting, and leaves
\* the bounds added before it unchanged.
C7_MalformedTextIsAnErrorValue ==
  (last.text # << >> /\ last.res # "Ok") =>
    /\ builder # "panicked"
    /\ last.res = "Err"
    /\ ops = last.before

\* C8: a bound naming a slot the search does not have is caught when it is
\* built or compiled: calc never enumerates a candidate for it and never
\* fails on a candidate because of it.
C8_UnresolvedNameCaughtBeforeSearch ==
  (\E i \in 1..Len(f.bs) : Unresolved(f.bs[i])) => (calls = << >> /\ outcome # "panic")

(***************************************************************************)
(* Properties of the parser, stated for SpecParse.                         *)
(***************************************************************************)
TwoCharOps == {"<=", ">=", "==", "!="}

Occurs(op) == Contains(text, Pat(op))

\* C9 as claimed: a two-character operator that occurs is selected before
\* any one-character operator, < or > is selected only when no two-character
\* operator occurs, and ~ only when no other operator occurs.
C9_TwoCharacterOperatorsFirst ==
  parsed.op # "unparsed" =>
    /\ (\E o \in TwoCharOps : Occurs(o)) => parsed.op \in TwoCharOps
    /\ parsed.op \in {"<", ">"} => ~(\E o \in TwoCharOps : Occurs(o))
    /\ parsed.op = "~" => ~(\E o \in AllOps \ {"~"} : Occurs(o))

DetectionOrder == << "<=", "<", ">=", ">", "==", "!=", "~" >>

\* C9 as amended: the operator selected is the first of <=, <, >=, >, ==, !=, ~
\* that occurs in the text (none when none occurs); so <= comes before < and
\* >= before >, and ~ is selected only when no other operator occurs.
C9_FirstInDetectionOrder ==
  parsed.op # "unparsed" =>
    /\ \A k \in 1..Len(DetectionOrder) :
         (parsed.op = DetectionOrder[k]) <=>
           (Occurs(DetectionOrder[k]) /\ \A j \in 1..(k - 1) : ~Occurs(DetectionOrder[j]))
    /\ (parsed.op = "none") <=> (\A o \in AllOps : ~Occurs(o))
    /\ Occurs("<=") => parsed.op = "<="
    /\ parsed.op = "~" => ~(\E o \in AllOps \ {"~"} : Occurs(o))

\* C9 witness: a text in which a two-character operator occurs and the
\* one-character < was selected.
C9_Witness ==
  /\ parsed.op = "<"
  /\ \E o \in TwoCharOps : Occurs(o)

\* the token occurs once more in the text after its first occurrence
TokenRepeats ==
  LET pat == Pat(parsed.op)
  IN FindFrom(text, pat, FindFrom(text, pat, 1) + Len(pat)) # 0

\* C12: the two sides are cut at the first occurrence of the matched
\* operator token: the expression side is the trimmed text before it, the
\* target side the trimmed text after it, and a text is accepted only when
\* that whole target side is a real-number literal, which is the target.
C12_SplitAtFirstOccurrence ==
  parsed.op \notin {"unparsed", "none"} =>
    LET pat    == Pat(parsed.op)
        i      == FindFrom(text, pat, 1)
        before == Trim(SubSeq(text, 1, i - 1))
        after  == Trim(SubSeq(text, i + Len(pat), Len(text)))
    IN /\ parsed.left = before
       /\ parsed.right = after
       /\ parsed.res = "Ok" =>
            /\ ParseF64(after).ok
            /\ parsed.b.trg = ParseF64(after).val

====
